---- MODULE Spec2Model ----
(***************************************************************************)
(* The meal-logging dashboard: Dashboard.tsx (handleFileChange,            *)
(* fetchMealLogs, the dailyTotals effect), firestoreService.ts             *)
(* (uploadImage, saveMealLog, getTodaysMealLogs, saveWorkoutPlan) and the  *)
(* auth state of useAuth.tsx.  Every await of the source is a suspension   *)
(* point: one action runs the code from one await to the next.             *)
(*                                                                         *)
(* Numbers are integers: the nutrition values stand for the JavaScript     *)
(* numbers in a fixed unit; instants are integer clock readings.           *)
(***************************************************************************)
EXTENDS Integers, Sequences, FiniteSets, TLC

\* ---------------------------------------------------------------- bounds
MaxTime == 2          \* the clock runs 0..MaxTime
MaxLen == 2           \* length of the log sequences aggregate is tried on
MaxStarts == 2        \* change events handled and workout plans saved, all dashboards together
MaxAuthChanges == 3   \* onAuthStateChanged callbacks delivered, all dashboards together

\* ---------------------------------------------------------------- values
NULL == "null"
Users == {"u1", "u2"}
Sessions == {"s1", "s2"}                 \* mounted Dashboard components (browser sessions)
RunSlots == 1..2                         \* per-dashboard places for invocations in flight
DayLen == 2                              \* one day (setDate(getDate() + 1)), in clock units

\* a File: its name and its MIME type "type/subtype" as <<type, subtype>>
ImageFile == [name |-> "meal.jpg", type |-> <<"image", "jpeg">>]
ImageFiles == {ImageFile}
TextFile == [name |-> "notes.txt", type |-> <<"text", "plain">>]
NoFile == [name |-> NULL, type |-> <<>>]   \* event.target.files?.[0] is undefined
Files == ImageFiles \cup {TextFile, NoFile} \* what a change event may carry
\* the value of the file input after the selection: '' when no file is selected
InputValue(file) == IF file = NoFile THEN "" ELSE file.name

Apple == <<"apple">>
LabelSeqs == {<<>>, Apple}               \* what analyzeFoodImage may resolve to

NutritionA == [calories |-> 95,
               macronutrients |-> [protein |-> 1, carbohydrates |-> 25, fat |-> 3]]
NutritionB == [calories |-> 40,
               macronutrients |-> [protein |-> 7, carbohydrates |-> 2, fat |-> 11]]
Nutritions == {NutritionA, NutritionB}   \* what getNutritionalAnalysis may resolve to

ZeroTotals == [calories |-> 0, protein |-> 0, carbohydrates |-> 0, fat |-> 0]

\* loading messages and error messages of the Dashboard
MsgNone == ""
MsgLoading == "Loading your dashboard..."
MsgAnalyzing == "Analyzing your meal..."
MsgCalculating == "Calculating nutrition..."
MsgSaving == "Saving your log..."

ErrLoad == "Could not load your meal logs. Please try refreshing."
ErrFileRead == "Failed to log meal: <fileToBase64 error>"
ErrRecognition == "Failed to log meal: <analyzeFoodImage error>"
ErrNoFood == "Failed to log meal: Could not identify any food in the image."
ErrNutrition == "Failed to log meal: <getNutritionalAnalysis error>"
ErrStorage == "Failed to log meal: <uploadImage error>"
ErrPersistence == "Failed to log meal: <saveMealLog error>"
LogMealErrors == {ErrFileRead, ErrRecognition, ErrNoFood, ErrNutrition, ErrStorage, ErrPersistence}

\* the four stages of one run
StageOrder == <<"Recognize", "ComputeNutrition", "StoreImage", "PersistRecord">>

\* ---------------------------------------------------------------- state
VARIABLES
    now,                     \* the clock: Date.now(), new Date(), serverTimestamp()
    storage,                 \* Firebase Storage: the file paths that hold a blob
    mealLogsCollection,      \* Firestore users/{uid}/mealLogs: user -> set of documents
    workoutPlansCollection,  \* Firestore users/{uid}/workoutPlans: user -> set of documents
    user,                    \* per dashboard: the user prop (useAuth's user state)
    isLoading,               \* per dashboard: useState(false)
    loadingMessage,          \* per dashboard: useState('')
    error,                   \* per dashboard: useState(null)
    mealLogs,                \* per dashboard: useState([])
    dailyTotals,             \* per dashboard: useState({calories: 0, ...})
    inputValue,              \* per dashboard: the value of the meal-upload input ('' when none)
    runs,                    \* per dashboard: the handleFileChange invocations in flight
    fetches,                 \* per dashboard: the effect-started fetchMealLogs calls in flight
    authChanges,             \* onAuthStateChanged callbacks delivered so far
    started,                 \* meal uploads and workout-plan saves started so far
    rejected                 \* the checks at which handleFileChange has returned early so far

vars == <<now, storage, mealLogsCollection, workoutPlansCollection, user, isLoading,
          loadingMessage, error, mealLogs, dailyTotals, inputValue, runs, fetches,
          authChanges, started, rejected>>

budget == <<authChanges, started, rejected>>
store == <<storage, mealLogsCollection, workoutPlansCollection>>
view == <<isLoading, loadingMessage, error, mealLogs, dailyTotals>>

\* ---------------------------------------------------------------- firestoreService.ts
NoPath == [uid |-> NULL, at |-> 0, name |-> NULL]
NoUrl == [ref |-> NoPath]

\* uploadImage: `users/${userId}/meals/${Date.now()}-${file.name}`
FilePath(userId, t, file) == [uid |-> userId, at |-> t, name |-> file.name]

\* getDownloadURL(snapshot.ref): the URL of the object at that path
GetDownloadURL(path) == [ref |-> path]

\* a write to one fixed document instead of a new one: it replaces what was there
SetDocFixedId(coll, doc) == {d \in coll : d.id # 1} \cup {[doc EXCEPT !.id = 1]}

\* addDoc(collection, data): a new document with an id no document of the collection has
AddDoc(coll, doc) == coll \cup {doc}

\* createdAt taken from the client's clock at the upload instead of the server's time
MealDocClientTime(id, mealData, t) ==
    [id |-> id, createdAt |-> mealData.imageUrl.ref.at, imageUrl |-> mealData.imageUrl,
     foodItems |-> mealData.foodItems, nutrition |-> mealData.nutrition]

\* saveMealLog: { ...mealData, createdAt: serverTimestamp() } under a fresh id
MealDoc(id, mealData, t) ==
    [id |-> id, createdAt |-> t, imageUrl |-> mealData.imageUrl,
     foodItems |-> mealData.foodItems, nutrition |-> mealData.nutrition]

\* the window started at the current instant instead of at midnight
StartOfDayNotTruncated(t) == t

\* getTodaysMealLogs: today.setHours(0, 0, 0, 0)
StartOfDay(t) == t - (t % DayLen)
\* getTodaysMealLogs: tomorrow.setDate(today.getDate() + 1)
StartOfNextDay(today) == today + DayLen

\* the window closed at its end: '<=' instead of '<'
InWindowClosed(d, start, end) == d.createdAt >= start /\ d.createdAt <= end

\* where('createdAt', '>=', start), where('createdAt', '<', end)
InWindow(d, start, end) == d.createdAt >= start /\ d.createdAt < end

\* orderBy('createdAt', 'desc'): Firestore orders ties by document id, same direction
Before(a, b) == a.createdAt > b.createdAt \/ (a.createdAt = b.createdAt /\ a.id > b.id)

RECURSIVE OrderByDesc(_)
OrderByDesc(docs) ==
    IF docs = {} THEN <<>>
    ELSE LET first == CHOOSE a \in docs : \A b \in docs \ {a} : Before(a, b)
         IN  <<first>> \o OrderByDesc(docs \ {first})

\* querySnapshot.docs.map(doc => ({ id: doc.id, userId, ...doc.data() }))
ToMealLog(userId, d) ==
    [id |-> d.id, userId |-> userId, createdAt |-> d.createdAt, imageUrl |-> d.imageUrl,
     foodItems |-> d.foodItems, nutrition |-> d.nutrition]

RECURSIVE MapDocs(_, _)
MapDocs(userId, docs) ==
    IF docs = <<>> THEN <<>>
    ELSE <<ToMealLog(userId, Head(docs))>> \o MapDocs(userId, Tail(docs))

\* the query of getTodaysMealLogs against the collection of userId, for any window
QueryIn(coll, userId, start, end) ==
    MapDocs(userId, OrderByDesc({d \in coll : InWindow(d, start, end)}))

QueryByWindow(userId, start, end) == QueryIn(mealLogsCollection[userId], userId, start, end)

GetTodaysMealLogs(userId, today) == QueryByWindow(userId, today, StartOfNextDay(today))

\* ---------------------------------------------------------------- Dashboard.tsx
\* a reducer that adds the protein to the fat total
AddLogFatFromProtein(acc, log) ==
    [calories |-> acc.calories + log.nutrition.calories,
     protein |-> acc.protein + log.nutrition.macronutrients.protein,
     carbohydrates |-> acc.carbohydrates + log.nutrition.macronutrients.carbohydrates,
     fat |-> acc.fat + log.nutrition.macronutrients.protein]

\* the reducer of the dailyTotals effect
AddLog(acc, log) ==
    [calories |-> acc.calories + log.nutrition.calories,
     protein |-> acc.protein + log.nutrition.macronutrients.protein,
     carbohydrates |-> acc.carbohydrates + log.nutrition.macronutrients.carbohydrates,
     fat |-> acc.fat + log.nutrition.macronutrients.fat]

\* mealLogs.reduce(reducer, {calories: 0, protein: 0, carbohydrates: 0, fat: 0})
RECURSIVE Reduce(_, _)
Reduce(logs, acc) ==
    IF logs = <<>> THEN acc ELSE Reduce(Tail(logs), AddLog(acc, Head(logs)))

Aggregate(logs) == Reduce(logs, ZeroTotals)

\* the totals left at their initial value: no effect on mealLogs
DailyTotalsEffectMissing(logs) == ZeroTotals

\* useEffect(() => setDailyTotals(totals), [mealLogs]): runs after every setMealLogs
DailyTotalsEffect(logs) == Aggregate(logs)

\* one handleFileChange invocation: where it is suspended and what its closure holds
\* (detached: the input of its event, event.target, is no longer rendered);
\* invoked and completed record the stages it has called and seen succeed, totalsBefore
\* and countBefore the totals shown and the user's number of records when it started
IdleRun ==
    [pc |-> "idle", uid |-> NULL, file |-> ImageFile, foodItems |-> <<>>,
     nutrition |-> NutritionA, filePath |-> NoPath, imageUrl |-> NoUrl, calledAt |-> 0,
     docId |-> 0, today |-> 0, invoked |-> <<>>, completed |-> <<>>,
     totalsBefore |-> ZeroTotals, countBefore |-> 0, detached |-> FALSE]

InFlight(s) == {i \in RunSlots : runs[s][i].pc # "idle"}
DocsStored == UNION {mealLogsCollection[u] : u \in Users}
\* the id addDoc gives a new document: one that no document of the collection has
FreshId(coll) == Cardinality(coll) + 1

RemoveAt(seq, k) == SubSeq(seq, 1, k - 1) \o SubSeq(seq, k + 1, Len(seq))

Init ==
    /\ now = 0
    /\ storage = {}
    /\ mealLogsCollection = [u \in Users |-> {}]
    /\ workoutPlansCollection = [u \in Users |-> {}]
    /\ user = [s \in Sessions |-> NULL]
    /\ isLoading = [s \in Sessions |-> FALSE]
    /\ loadingMessage = [s \in Sessions |-> MsgNone]
    /\ error = [s \in Sessions |-> NULL]
    /\ mealLogs = [s \in Sessions |-> <<>>]
    /\ dailyTotals = [s \in Sessions |-> ZeroTotals]
    /\ inputValue = [s \in Sessions |-> ""]
    /\ runs = [s \in Sessions |-> [i \in RunSlots |-> IdleRun]]
    /\ fetches = [s \in Sessions |-> <<>>]
    /\ authChanges = 0
    /\ started = 0
    /\ rejected = {}

\* time passes
Tick ==
    /\ now < MaxTime
    /\ now' = now + 1
    /\ UNCHANGED <<inputValue, store, user, view, runs, fetches, budget>>

\* ---- useAuth.tsx / Dashboard.tsx: the user changes and the effect calls fetchMealLogs
\* onAuthStateChanged delivers a sign-in: setUser(u); fetchMealLogs is rebuilt and the
\* effect calls it: setIsLoading(true), the message, and getTodaysMealLogs is awaited
SignIn(s, u) ==
    /\ user[s] = NULL
    /\ authChanges < MaxAuthChanges
    /\ authChanges' = authChanges + 1
    /\ user' = [user EXCEPT ![s] = u]
    /\ isLoading' = [isLoading EXCEPT ![s] = TRUE]
    /\ loadingMessage' = [loadingMessage EXCEPT ![s] = MsgLoading]
    /\ fetches' = [fetches EXCEPT ![s] = Append(@, [uid |-> u, today |-> StartOfDay(now)])]
    /\ UNCHANGED <<inputValue, now, store, error, mealLogs, dailyTotals, runs, started, rejected>>

\* onAuthStateChanged delivers a sign-out: setUser(null); the effect's fetchMealLogs
\* returns at once (if (!user) return), the Dashboard state is kept; the render for no
\* user (if (!user) return ...) has no upload input: the input is unmounted
SignOut(s) ==
    /\ user[s] # NULL
    /\ authChanges < MaxAuthChanges
    /\ authChanges' = authChanges + 1
    /\ user' = [user EXCEPT ![s] = NULL]
    /\ inputValue' = [inputValue EXCEPT ![s] = ""]
    /\ runs' = [runs EXCEPT ![s] =
                   [i \in RunSlots |-> IF @[i].pc = "idle" THEN @[i]
                                       ELSE [@[i] EXCEPT !.detached = TRUE]]]
    /\ UNCHANGED <<now, store, view, fetches, started, rejected>>

\* getTodaysMealLogs resolves: setMealLogs(logs), the totals effect, then finally
FetchMealLogsDone(s, k) ==
    /\ k \in 1..Len(fetches[s])
    /\ LET f == fetches[s][k]
           logs == GetTodaysMealLogs(f.uid, f.today)
       IN  /\ mealLogs' = [mealLogs EXCEPT ![s] = logs]
           /\ dailyTotals' = [dailyTotals EXCEPT ![s] = DailyTotalsEffect(logs)]
    /\ isLoading' = [isLoading EXCEPT ![s] = FALSE]
    /\ loadingMessage' = [loadingMessage EXCEPT ![s] = MsgNone]
    /\ fetches' = [fetches EXCEPT ![s] = RemoveAt(@, k)]
    /\ UNCHANGED <<inputValue, now, store, user, error, runs, budget>>

\* getTodaysMealLogs rejects: setError(...), then finally
FetchMealLogsFail(s, k) ==
    /\ k \in 1..Len(fetches[s])
    /\ error' = [error EXCEPT ![s] = ErrLoad]
    /\ isLoading' = [isLoading EXCEPT ![s] = FALSE]
    /\ loadingMessage' = [loadingMessage EXCEPT ![s] = MsgNone]
    /\ fetches' = [fetches EXCEPT ![s] = RemoveAt(@, k)]
    /\ UNCHANGED <<inputValue, now, store, user, mealLogs, dailyTotals, runs, budget>>

\* <ErrorMessage onRetry={() => setError(null)} />, rendered for a signed-in user
DismissError(s) ==
    /\ user[s] # NULL
    /\ error[s] # NULL
    /\ error' = [error EXCEPT ![s] = NULL]
    /\ UNCHANGED <<inputValue, now, store, user, isLoading, loadingMessage, mealLogs, dailyTotals,
                   runs, fetches, budget>>

\* ---- Dashboard.tsx: handleFileChange, one action per await
SetRun(s, i, r) == runs' = [runs EXCEPT ![s][i] = r]
LowestFree(s) == CHOOSE i \in RunSlots \ InFlight(s) : \A j \in RunSlots \ InFlight(s) : i <= j

\* the empty check left out
NoFoodCheckMissing(foodItems) == FALSE

\* if (foodItems.length === 0) throw new Error("Could not identify any food in the image.")
NoFoodDetected(foodItems) == Len(foodItems) = 0

\* event.target.value = '': the input of the run's event is reset
ResetInput(s, i) ==
    inputValue' = IF runs[s][i].detached THEN inputValue ELSE [inputValue EXCEPT ![s] = ""]

\* catch: setError(`Failed to log meal: ...`); finally: setIsLoading(false),
\* setLoadingMessage(''), the input is reset; the invocation is over
CatchAndFinally(s, i, message) ==
    /\ error' = [error EXCEPT ![s] = message]
    /\ isLoading' = [isLoading EXCEPT ![s] = FALSE]
    /\ loadingMessage' = [loadingMessage EXCEPT ![s] = MsgNone]
    /\ ResetInput(s, i)
    /\ SetRun(s, i, IdleRun)

\* the check passed for every type
StartsWithAnything(type) == TRUE

\* file.type.startsWith('image/')
StartsWithImage(type) == Len(type) >= 1 /\ type[1] = "image"

\* the change events handled and the workout plans saved so far
Handled == started + Cardinality(rejected)

\* handleFileChange returns before it sets any state
ReturnEarly(check) ==
    /\ rejected' = rejected \cup {check}
    /\ UNCHANGED <<now, store, user, view, runs, fetches, authChanges, started>>

\* the change event of the meal-upload input (rendered for a signed-in user, disabled
\* while isLoading), or a call of the handler with no user: without a file or a user it
\* returns; for a file that is not an image it shows a toast and returns; otherwise
\* setIsLoading(true), setError(null), the first message, and fileToBase64 is awaited
HandleFileChange(s, file) ==
    /\ user[s] # NULL => ~isLoading[s]
    /\ Handled < MaxStarts
    /\ inputValue' = IF user[s] = NULL THEN inputValue
                     ELSE [inputValue EXCEPT ![s] = InputValue(file)]
    /\ IF file = NoFile \/ user[s] = NULL
       THEN ReturnEarly(IF file = NoFile THEN "noFile" ELSE "noUser")
       ELSE IF ~StartsWithImage(file.type)
       THEN ReturnEarly("notImage")
       ELSE /\ InFlight(s) # RunSlots
            /\ started' = started + 1
            /\ isLoading' = [isLoading EXCEPT ![s] = TRUE]
            /\ error' = [error EXCEPT ![s] = NULL]
            /\ loadingMessage' = [loadingMessage EXCEPT ![s] = MsgAnalyzing]
            /\ SetRun(s, LowestFree(s),
                      [IdleRun EXCEPT !.pc = "fileToBase64", !.uid = user[s], !.file = file,
                                      !.totalsBefore = dailyTotals[s],
                                      !.countBefore = Cardinality(mealLogsCollection[user[s]])])
            /\ UNCHANGED <<now, store, user, mealLogs, dailyTotals, fetches, authChanges,
                           rejected>>

\* fileToBase64 resolves: analyzeFoodImage is called
FileToBase64Done(s, i) ==
    /\ runs[s][i].pc = "fileToBase64"
    /\ SetRun(s, i, [runs[s][i] EXCEPT !.pc = "analyzeFoodImage",
                                       !.invoked = Append(@, "Recognize")])
    /\ UNCHANGED <<inputValue, now, store, user, view, fetches, budget>>

FileToBase64Fail(s, i) ==
    /\ runs[s][i].pc = "fileToBase64"
    /\ CatchAndFinally(s, i, ErrFileRead)
    /\ UNCHANGED <<now, store, user, mealLogs, dailyTotals, fetches, budget>>

\* analyzeFoodImage resolves with foodItems: the empty check, then the second message
\* and getNutritionalAnalysis is called
AnalyzeFoodImageDone(s, i, foodItems) ==
    /\ runs[s][i].pc = "analyzeFoodImage"
    /\ IF NoFoodDetected(foodItems)
       THEN /\ CatchAndFinally(s, i, ErrNoFood)
       ELSE /\ loadingMessage' = [loadingMessage EXCEPT ![s] = MsgCalculating]
            /\ SetRun(s, i, [runs[s][i] EXCEPT !.pc = "getNutritionalAnalysis",
                                               !.foodItems = foodItems,
                                               !.completed = Append(@, "Recognize"),
                                               !.invoked = Append(@, "ComputeNutrition")])
            /\ UNCHANGED <<error, isLoading, inputValue>>
    /\ UNCHANGED <<now, store, user, mealLogs, dailyTotals, fetches, budget>>

\* a failed recognition called again instead of thrown
AnalyzeFoodImageRetried(s, i) ==
    /\ runs[s][i].pc = "analyzeFoodImage"
    /\ SetRun(s, i, [runs[s][i] EXCEPT !.invoked = Append(@, "Recognize")])
    /\ UNCHANGED <<inputValue, now, store, user, view, fetches, budget>>

AnalyzeFoodImageFail(s, i) ==
    /\ runs[s][i].pc = "analyzeFoodImage"
    /\ CatchAndFinally(s, i, ErrRecognition)
    /\ UNCHANGED <<now, store, user, mealLogs, dailyTotals, fetches, budget>>

\* getNutritionalAnalysis resolves: the third message, uploadImage is called: it builds
\* the file path from Date.now() and awaits uploadBytes
GetNutritionalAnalysisDone(s, i, nutrition) ==
    /\ runs[s][i].pc = "getNutritionalAnalysis"
    /\ loadingMessage' = [loadingMessage EXCEPT ![s] = MsgSaving]
    /\ SetRun(s, i, [runs[s][i] EXCEPT !.pc = "uploadBytes",
                                       !.nutrition = nutrition,
                                       !.filePath = FilePath(runs[s][i].uid, now, runs[s][i].file),
                                       !.completed = Append(@, "ComputeNutrition"),
                                       !.invoked = Append(@, "StoreImage")])
    /\ UNCHANGED <<inputValue, now, store, user, isLoading, error, mealLogs, dailyTotals, fetches,
                   budget>>

GetNutritionalAnalysisFail(s, i) ==
    /\ runs[s][i].pc = "getNutritionalAnalysis"
    /\ CatchAndFinally(s, i, ErrNutrition)
    /\ UNCHANGED <<now, store, user, mealLogs, dailyTotals, fetches, budget>>

\* uploadBytes resolves: the blob is stored at the path; getDownloadURL is awaited
UploadBytesDone(s, i) ==
    /\ runs[s][i].pc = "uploadBytes"
    /\ storage' = storage \cup {runs[s][i].filePath}
    /\ SetRun(s, i, [runs[s][i] EXCEPT !.pc = "getDownloadURL"])
    /\ UNCHANGED <<inputValue, now, mealLogsCollection, workoutPlansCollection, user, view, fetches,
                   budget>>

UploadBytesFail(s, i) ==
    /\ runs[s][i].pc = "uploadBytes"
    /\ CatchAndFinally(s, i, ErrStorage)
    /\ UNCHANGED <<now, store, user, mealLogs, dailyTotals, fetches, budget>>

\* getDownloadURL resolves: uploadImage returns the URL; saveMealLog is called and
\* awaits addDoc
GetDownloadURLDone(s, i) ==
    /\ runs[s][i].pc = "getDownloadURL"
    /\ SetRun(s, i, [runs[s][i] EXCEPT !.pc = "addDoc",
                                       !.imageUrl = GetDownloadURL(runs[s][i].filePath),
                                       !.calledAt = now,
                                       !.completed = Append(@, "StoreImage"),
                                       !.invoked = Append(@, "PersistRecord")])
    /\ UNCHANGED <<inputValue, now, store, user, view, fetches, budget>>

GetDownloadURLFail(s, i) ==
    /\ runs[s][i].pc = "getDownloadURL"
    /\ CatchAndFinally(s, i, ErrStorage)
    /\ UNCHANGED <<now, store, user, mealLogs, dailyTotals, fetches, budget>>

\* serverTimestamp(): the server's time when it wrote the document, between the call
\* of addDoc and its return
ServerTimestamps(calledAt) == calledAt..now

\* addDoc resolves: the document is in the collection of the run's user; the success
\* toast; fetchMealLogs() of the run's closure is called: setIsLoading(true), its
\* message, and getTodaysMealLogs is awaited
AddDocDone(s, i, t) ==
    /\ runs[s][i].pc = "addDoc"
    /\ t \in ServerTimestamps(runs[s][i].calledAt)
    /\ LET r == runs[s][i]
           mealData == [imageUrl |-> r.imageUrl, foodItems |-> r.foodItems,
                        nutrition |-> r.nutrition]
           id == FreshId(mealLogsCollection[r.uid])
       IN  /\ mealLogsCollection' =
                 [mealLogsCollection EXCEPT ![r.uid] = AddDoc(@, MealDoc(id, mealData, t))]
           /\ SetRun(s, i, [r EXCEPT !.pc = "getTodaysMealLogs",
                                     !.docId = id,
                                     !.today = StartOfDay(now),
                                     !.completed = Append(@, "PersistRecord")])
    /\ isLoading' = [isLoading EXCEPT ![s] = TRUE]
    /\ loadingMessage' = [loadingMessage EXCEPT ![s] = MsgLoading]
    /\ UNCHANGED <<inputValue, now, storage, workoutPlansCollection, user, error, mealLogs,
                   dailyTotals, fetches, budget>>

AddDocFail(s, i) ==
    /\ runs[s][i].pc = "addDoc"
    /\ CatchAndFinally(s, i, ErrPersistence)
    /\ UNCHANGED <<now, store, user, mealLogs, dailyTotals, fetches, budget>>

\* the refresh resolves: setMealLogs(logs) and the totals effect, fetchMealLogs'
\* finally, then handleFileChange's finally; the invocation is over
RefreshDone(s, i) ==
    /\ runs[s][i].pc = "getTodaysMealLogs"
    /\ LET logs == GetTodaysMealLogs(runs[s][i].uid, runs[s][i].today)
       IN  /\ mealLogs' = [mealLogs EXCEPT ![s] = logs]
           /\ dailyTotals' = [dailyTotals EXCEPT ![s] = DailyTotalsEffect(logs)]
    /\ isLoading' = [isLoading EXCEPT ![s] = FALSE]
    /\ loadingMessage' = [loadingMessage EXCEPT ![s] = MsgNone]
    /\ ResetInput(s, i)
    /\ SetRun(s, i, IdleRun)
    /\ UNCHANGED <<now, store, user, error, fetches, budget>>

\* the refresh rejects: fetchMealLogs catches it (setError of the load) and returns;
\* both finally blocks; the invocation is over
RefreshFail(s, i) ==
    /\ runs[s][i].pc = "getTodaysMealLogs"
    /\ CatchAndFinally(s, i, ErrLoad)
    /\ UNCHANGED <<now, store, user, mealLogs, dailyTotals, fetches, budget>>

\* ---- firestoreService.ts: saveWorkoutPlan, called for a signed-in user
SaveWorkoutPlan(u) ==
    /\ \E s \in Sessions : user[s] = u
    /\ Handled < MaxStarts
    /\ started' = started + 1
    /\ workoutPlansCollection' =
          [workoutPlansCollection EXCEPT ![u] =
              AddDoc(@, [id |-> FreshId(@), plan |-> "plan", basedOnEquipment |-> "dumbbells",
                         createdAt |-> now])]
    /\ UNCHANGED <<inputValue, now, storage, mealLogsCollection, user, view, runs, fetches,
                   authChanges, rejected>>

Next ==
    \/ Tick
    \/ \E s \in Sessions, u \in Users : SignIn(s, u)
    \/ \E s \in Sessions : SignOut(s)
    \/ \E s \in Sessions, k \in 1..MaxAuthChanges : FetchMealLogsDone(s, k)
    \/ \E s \in Sessions, k \in 1..MaxAuthChanges : FetchMealLogsFail(s, k)
    \/ \E s \in Sessions : DismissError(s)
    \/ \E s \in Sessions, file \in Files : HandleFileChange(s, file)
    \/ \E s \in Sessions, i \in RunSlots : FileToBase64Done(s, i)
    \/ \E s \in Sessions, i \in RunSlots : FileToBase64Fail(s, i)
    \/ \E s \in Sessions, i \in RunSlots, foodItems \in LabelSeqs :
          AnalyzeFoodImageDone(s, i, foodItems)
    \/ \E s \in Sessions, i \in RunSlots : AnalyzeFoodImageFail(s, i)
    \/ \E s \in Sessions, i \in RunSlots, nutrition \in Nutritions :
          GetNutritionalAnalysisDone(s, i, nutrition)
    \/ \E s \in Sessions, i \in RunSlots : GetNutritionalAnalysisFail(s, i)
    \/ \E s \in Sessions, i \in RunSlots : UploadBytesDone(s, i)
    \/ \E s \in Sessions, i \in RunSlots : UploadBytesFail(s, i)
    \/ \E s \in Sessions, i \in RunSlots : GetDownloadURLDone(s, i)
    \/ \E s \in Sessions, i \in RunSlots : GetDownloadURLFail(s, i)
    \/ \E s \in Sessions, i \in RunSlots, t \in 0..MaxTime : AddDocDone(s, i, t)
    \/ \E s \in Sessions, i \in RunSlots : AddDocFail(s, i)
    \/ \E s \in Sessions, i \in RunSlots : RefreshDone(s, i)
    \/ \E s \in Sessions, i \in RunSlots : RefreshFail(s, i)
    \/ \E u \in Users : SaveWorkoutPlan(u)

Spec == Init /\ [][Next]_vars

\* ================================================================ claims
Run(s, i) == runs[s][i]
Prefix(seq, n) == SubSeq(seq, 1, n)
Ended(s, i) == runs[s][i].pc # "idle" /\ runs'[s][i].pc = "idle"

\* C1: in every run the stages are invoked in the order Recognize, ComputeNutrition,
\* StoreImage, PersistRecord, each at most once (what was invoked is a prefix of that
\* order), a stage is invoked only when every earlier one has completed, and at most
\* one stage, the last one invoked, is in progress.
C1_StagesSequential ==
    \A s \in Sessions, i \in RunSlots :
        LET r == Run(s, i)
            n == Len(r.invoked)
            m == Len(r.completed)
        IN  /\ n <= Len(StageOrder)
            /\ r.invoked = Prefix(StageOrder, n)
            /\ r.completed = Prefix(StageOrder, m)
            /\ m \in {n - 1, n}
            /\ r.pc = "analyzeFoodImage" => n = 1 /\ m = 0
            /\ r.pc = "getNutritionalAnalysis" => n = 2 /\ m = 1
            /\ r.pc \in {"uploadBytes", "getDownloadURL"} => n = 3 /\ m = 2
            /\ r.pc = "addDoc" => n = 4 /\ m = 3

\* C1 witness: a run that has completed all four stages
C1_Witness ==
    \E s \in Sessions, i \in RunSlots : Run(s, i).completed = StageOrder

\* C2: a run that ends while it is before the Store-image stage (reading the file,
\* recognizing, computing nutrition) has invoked neither uploadImage nor saveMealLog,
\* the step that ends it writes no blob and no record, and it ends with a logMeal
\* error; a run never gets past recognition with an empty label sequence.
BeforeStoreImage == {"fileToBase64", "analyzeFoodImage", "getNutritionalAnalysis"}
C2_EarlyFailureNoSideEffects ==
    [][\A s \in Sessions, i \in RunSlots :
          /\ (Run(s, i).pc \in BeforeStoreImage /\ Ended(s, i)) =>
                /\ storage' = storage
                /\ mealLogsCollection' = mealLogsCollection
                /\ "StoreImage" \notin {Run(s, i).invoked[k] : k \in 1..Len(Run(s, i).invoked)}
                /\ Run(s, i).filePath = NoPath
                /\ error'[s] \in LogMealErrors
          /\ (runs'[s][i].pc \notin BeforeStoreImage \cup {"idle"}) =>
                runs'[s][i].foodItems # <<>>
      ]_vars

\* C2 witness: a run ended with no food detected or a nutrition failure, and the stores
\* are empty
C2_Witness ==
    \E s \in Sessions :
        /\ error[s] \in {ErrNoFood, ErrNutrition}
        /\ storage = {}
        /\ DocsStored = {}

\* the document a MealLog was made from
DocOf(log) ==
    [id |-> log.id, createdAt |-> log.createdAt, imageUrl |-> log.imageUrl,
     foodItems |-> log.foodItems, nutrition |-> log.nutrition]
Range(seq) == {seq[k] : k \in 1..Len(seq)}

\* C3: the step in which a run's saveMealLog succeeds adds exactly one document, to the
\* collection of the run's user and to no other, with the run's non-empty foodItems,
\* nutrition and imageUrl and a createdAt within the call; a query of that user for the
\* day of createdAt then returns it; and the collections change in no other step.
Persisted(s, i) == Run(s, i).pc = "addDoc" /\ runs'[s][i].pc = "getTodaysMealLogs"
FieldOf(log, f) ==
    CASE f = "calories" -> log.nutrition.calories
      [] f = "protein" -> log.nutrition.macronutrients.protein
      [] f = "carbohydrates" -> log.nutrition.macronutrients.carbohydrates
      [] f = "fat" -> log.nutrition.macronutrients.fat
RECURSIVE SumField(_, _, _)
SumField(logs, f, n) == IF n = 0 THEN 0 ELSE SumField(logs, f, n - 1) + FieldOf(logs[n], f)
SumOf(logs) ==
    [calories |-> SumField(logs, "calories", Len(logs)),
     protein |-> SumField(logs, "protein", Len(logs)),
     carbohydrates |-> SumField(logs, "carbohydrates", Len(logs)),
     fat |-> SumField(logs, "fat", Len(logs))]

PersistFailed(s, i) == Run(s, i).pc = "addDoc" /\ Ended(s, i)
C5_PersistFailureLeavesOrphan ==
    [][\A s \in Sessions, i \in RunSlots :
          PersistFailed(s, i) =>
              /\ mealLogsCollection' = mealLogsCollection
              /\ storage' = storage
              /\ Run(s, i).filePath \in storage'
              /\ error'[s] = ErrPersistence
              /\ \A u \in Users : \A d \in mealLogsCollection'[u] :
                    d.imageUrl # Run(s, i).imageUrl
      ]_vars

\* C6: for every user and window, the query returns each document of that user's
\* collection with start <= createdAt < end exactly once, as a log of that user, in
\* descending order of createdAt, and nothing else; none is a document of another
\* user's collection.
C6_QueryByWindowExact ==
    \A u \in Users, start \in 0..MaxTime, end \in 0..(MaxTime + DayLen) :
        LET q == QueryByWindow(u, start, end)
            matching == {d \in mealLogsCollection[u] : d.createdAt \in start..(end - 1)}
        IN  /\ Len(q) = Cardinality(matching)
            /\ {DocOf(log) : log \in Range(q)} = matching
            /\ \A k \in 1..Len(q) : q[k].userId = u
            /\ \A k \in 1..Len(q) : \A v \in Users \ {u} :
                  DocOf(q[k]) \notin mealLogsCollection[v]
            /\ \A k, l \in 1..Len(q) : k < l => q[k].createdAt >= q[l].createdAt

\* C6 witness: a user has a record at the start of a day and one at its end, and today's
\* query returns the first without the second
C6_Witness ==
    \E u \in Users :
        /\ \E d \in mealLogsCollection[u] : d.createdAt = 0
        /\ \E d \in mealLogsCollection[u] : d.createdAt = DayLen
        /\ Len(QueryByWindow(u, 0, DayLen)) = 1

\* C7: for every sequence of up to MaxLen logs made from the persisted records, each
\* total of aggregate is the sum of its field over the sequence; the totals of the
\* empty sequence are 0.
PersistedLogs == UNION {{ToMealLog(u, d) : d \in mealLogsCollection[u]} : u \in Users}
LogSeqs == UNION {[1..n -> PersistedLogs] : n \in 0..MaxLen}
C7_AggregateIsSum ==
    /\ Aggregate(<<>>) = [calories |-> 0, protein |-> 0, carbohydrates |-> 0, fat |-> 0]
    /\ \A logs \in LogSeqs : Aggregate(logs) = SumOf(logs)

\* C7 witness: two persisted records with different nutrition, loaded by a dashboard
C7_Witness ==
    \E s \in Sessions :
        /\ Len(mealLogs[s]) = 2
        /\ mealLogs[s][1].nutrition # mealLogs[s][2].nutrition
        /\ dailyTotals[s].calories = NutritionA.calories + NutritionB.calories

\* coordinate-wise sum of two totals, and the totals of one nutrition value
Plus(a, b) ==
    [calories |-> a.calories + b.calories, protein |-> a.protein + b.protein,
     carbohydrates |-> a.carbohydrates + b.carbohydrates, fat |-> a.fat + b.fat]
TotalsOf(n) ==
    [calories |-> n.calories, protein |-> n.macronutrients.protein,
     carbohydrates |-> n.macronutrients.carbohydrates, fat |-> n.macronutrients.fat]
RECURSIVE SumDocs(_)
SumDocs(docs) ==
    IF docs = {} THEN ZeroTotals
    ELSE LET d == CHOOSE x \in docs : TRUE
         IN  Plus(TotalsOf(d.nutrition), SumDocs(docs \ {d}))

\* C8 as claimed: when a run that persisted its record ends and no one else appended a
\* record for its user since it started, the totals shown are the totals shown when it
\* started plus the run's nutrition.
C8_TotalsIncreaseByNutrition ==
    [][\A s \in Sessions, i \in RunSlots :
          (/\ Run(s, i).pc = "getTodaysMealLogs"
           /\ Ended(s, i)
           /\ Cardinality(mealLogsCollection[Run(s, i).uid]) = Run(s, i).countBefore + 1) =>
              dailyTotals'[s] = Plus(Run(s, i).totalsBefore, TotalsOf(Run(s, i).nutrition))
      ]_vars

\* C8 amended: when the refresh of a run that persisted its record succeeds, the totals
\* shown are the sum over the records of the run's user created in the day in which the
\* refresh started; if the run's record is one of them and the totals shown when the
\* run started were the sum over the others, they are those totals plus the run's
\* nutrition.
C8_RefreshedTotals ==
    [][\A s \in Sessions, i \in RunSlots :
          RefreshDone(s, i) =>
              LET r == Run(s, i)
                  ofDay == {d \in mealLogsCollection[r.uid] :
                               d.createdAt \div DayLen = r.today \div DayLen}
                  own == {d \in ofDay : d.id = r.docId}
              IN  /\ dailyTotals'[s] = SumDocs(ofDay)
                  /\ (own # {} /\ r.totalsBefore = SumDocs(ofDay \ own)) =>
                        dailyTotals'[s] = Plus(r.totalsBefore, TotalsOf(r.nutrition))
      ]_vars

\* C8 witness: a dashboard with no run in flight shows its user's two records of today,
\* the totals being those of the first record plus the second record's nutrition
C8_Witness ==
    \E s \in Sessions :
        /\ user[s] # NULL /\ InFlight(s) = {} /\ ~isLoading[s]
        /\ Len(mealLogs[s]) = 2
        /\ \A k \in 1..2 : mealLogs[s][k].userId = user[s]
        /\ dailyTotals[s] = Plus(TotalsOf(mealLogs[s][2].nutrition),
                                 TotalsOf(mealLogs[s][1].nutrition))

\* C9: no step removes or changes a persisted record: every document of every user's
\* collection is still there, unchanged, after the step.
C9_AppendOnly ==
    [][\A u \in Users : mealLogsCollection[u] \subseteq mealLogsCollection'[u]]_vars

\* C9 witness: a user has a persisted record and also a saved workout plan or a
\* dashboard showing a failed run
C9_Witness ==
    \E u \in Users :
        /\ mealLogsCollection[u] # {}
        /\ \/ workoutPlansCollection[u] # {}
           \/ \E s \in Sessions : error[s] \in LogMealErrors /\ user[s] = u

\* C10 as claimed: a dashboard has at most one run in flight, and while a run is in
\* flight its loading flag is set (the input is disabled).
C10_SingleFlight ==
    \A s \in Sessions :
        /\ Cardinality(InFlight(s)) <= 1
        /\ InFlight(s) # {} => isLoading[s]

\* the runs that have built their upload path: uploadImage was called
Uploading == {<<s, i>> \in Sessions \X RunSlots : Run(s, i).filePath # NoPath}

\* C11 as claimed: no two uploads in flight have the same path, and a run that is about
\* to write its blob (uploadBytes is awaited) has a path that no blob is stored at and
\* that no persisted record references.
C11_UploadPathsDistinct ==
    /\ \A a, b \in Uploading :
          a # b => Run(a[1], a[2]).filePath # Run(b[1], b[2]).filePath
    /\ \A a \in Uploading :
          Run(a[1], a[2]).pc = "uploadBytes" =>
              /\ Run(a[1], a[2]).filePath \notin storage
              /\ \A d \in DocsStored : d.imageUrl # GetDownloadURL(Run(a[1], a[2]).filePath)

\* a run starts in slot i of dashboard s; a run of the dashboard moves on
Starts(s, i) == Run(s, i).pc = "idle" /\ runs'[s][i].pc # "idle"
Advances(s, i) == Run(s, i).pc # "idle" /\ runs'[s][i] # Run(s, i)

\* C12: a run starts only in a step in which the dashboard's user is signed in, for that
\* user and with an image file; a step in which handleFileChange returns early starts no
\* run and changes neither the stores nor the dashboard state; the storage and the
\* meal-log collections change only in a step of a run that was started so; and a load
\* of the meal logs is started only for a signed-in user.
C12_PreconditionsGateThePipeline ==
    [][/\ \A s \in Sessions, i \in RunSlots :
             /\ Starts(s, i) =>
                   /\ user[s] # NULL /\ runs'[s][i].uid = user[s]
                   /\ runs'[s][i].file \in ImageFiles
                   /\ runs'[s][i].invoked = <<>>
             /\ runs'[s][i].pc # "idle" =>
                   runs'[s][i].uid \in Users /\ runs'[s][i].file \in ImageFiles
       /\ rejected' # rejected =>
             /\ \A s \in Sessions, i \in RunSlots : runs'[s][i] = Run(s, i)
             /\ UNCHANGED <<store, view, fetches>>
       /\ <<storage, mealLogsCollection>>' # <<storage, mealLogsCollection>> =>
             \E s \in Sessions, i \in RunSlots :
                 /\ Advances(s, i)
                 /\ Run(s, i).uid \in Users /\ Run(s, i).file \in ImageFiles
       /\ \A s \in Sessions :
             /\ Len(fetches'[s]) > Len(fetches[s]) => user'[s] # NULL
             /\ \A k \in 1..Len(fetches'[s]) : fetches'[s][k].uid \in Users
      ]_vars

\* C12 witness: handleFileChange has returned early for a missing user and for a file
\* that is not an image, no run is in flight and nothing is stored
C12_Witness ==
    /\ rejected = {"noUser", "notImage"}
    /\ \A s \in Sessions : InFlight(s) = {}
    /\ storage = {} /\ DocsStored = {}

\* no getTodaysMealLogs call of the dashboard is awaited, by the effect or by a run
NoLoadInFlight(s) ==
    /\ fetches[s] = <<>>
    /\ \A i \in RunSlots : Run(s, i).pc # "getTodaysMealLogs"

\* C13 as claimed: when a user is signed in on a dashboard and no load is in flight,
\* every record of the dashboard's meal-log list is a record of that user.
C13_ListBelongsToSignedInUser ==
    \A s \in Sessions :
        (user[s] # NULL /\ NoLoadInFlight(s)) =>
            \A log \in Range(mealLogs[s]) : log.userId = user[s]

\* the message the catch block sets when the call awaited at pc rejects
FailureMessage(pc) ==
    CASE pc = "fileToBase64" -> {ErrFileRead}
      [] pc = "analyzeFoodImage" -> {ErrRecognition, ErrNoFood}
      [] pc = "getNutritionalAnalysis" -> {ErrNutrition}
      [] pc \in {"uploadBytes", "getDownloadURL"} -> {ErrStorage}
      [] pc = "addDoc" -> {ErrPersistence}
      [] OTHER -> {}

\* C14 as claimed: the step that ends a run leaves the dashboard with the loading flag
\* cleared, the loading message empty and the input of the run's event reset; when the
\* run ends at a failed stage the error is that stage's failure message, and when all
\* four stages succeeded the error is no logMeal failure.
C14_RunEndsClean ==
    [][\A s \in Sessions, i \in RunSlots :
          Ended(s, i) =>
              /\ ~isLoading'[s]
              /\ loadingMessage'[s] = MsgNone
              /\ ~Run(s, i).detached => inputValue'[s] = ""
              /\ Run(s, i).completed # StageOrder =>
                    error'[s] \in FailureMessage(Run(s, i).pc)
              /\ Run(s, i).completed = StageOrder => error'[s] \notin LogMealErrors
      ]_vars

====
